---- MODULE Spec2Model ----
(***************************************************************************)
(* QuikConnector (src/pytrade/connector/quik/QuikConnector.py): the socket *)
(* client of the Quik terminal.  The model holds the connector's fields,   *)
(* the position of the thread that executes run(), the positions of the    *)
(* caller threads that execute subscribe() and _send_order(), the bytes    *)
(* the connector has put on its socket and the data the peer delivers.     *)
(***************************************************************************)
EXTENDS Integers, Sequences, FiniteSets, TLC

VARIABLES
    status,          \* self.status
    sock,            \* self._sock: "none" (None), "created", "open", "closed"
    last_trans_id,   \* self._last_trans_id
    feed_callbacks,  \* self._feed_callbacks, a dict in insertion order: <<key, callback>> pairs
    wire,            \* the requests sent on the current socket, in order
    pc,              \* position of the thread executing run()
    err,             \* the exception that ended run(), "none" while there is none
    iter_pos,        \* _create_subscribers_datasources: entries the dict iterator has passed
    iter_used,       \* _create_subscribers_datasources: the dict's size when the iterator was made
    data_items,      \* run: the fragments of the current read
    item_idx,        \* run: index in data_items of the fragment the for loop is at
    lookups,         \* the ids looked up in self._callbacks for the current read, in order
    invoked,         \* the feed callback invocations made by the last step
    logged,          \* the records the receive loop and its handlers logged in the last step
    cpc,             \* position of each caller thread
    cargs,           \* the arguments and locals of each caller thread's call
    peer             \* the remote end of the socket: "up", or "closed" (recv returns b'')

conn     == <<status, sock, last_trans_id, feed_callbacks, wire>>
runloc   == <<pc, err, iter_pos, iter_used, data_items, item_idx, lookups>>
outs     == <<invoked, logged>>
callers  == <<cpc, cargs>>
vars     == <<conn, runloc, outs, callers, peer>>

(***************************************************************************)
(* Bounds of the model.                                                    *)
(***************************************************************************)
MaxBatch  == 2   \* delimiter-prefixed fragments in one read
MaxOrders == 2   \* _send_order calls on one connector
MaxWire   == 4   \* requests on the wire beyond which callers send no more

(***************************************************************************)
(* Program constants.                                                      *)
(***************************************************************************)
DISCONNECTED == 0
CONNECTING   == 1
CONNECTED    == 3

MSG_ID_AUTH              == "msg_auth"
MSG_ID_CREATE_DATASOURCE == "msg_create_ds"
MSG_DELIMITER            == "message:"
passwd                   == "1"
account                  == "SPBFUT00998"

(***************************************************************************)
(* Decoded JSON values, tagged by their Python type.                       *)
(***************************************************************************)
JDict(r) == [ty |-> "dict", fields |-> r]
JList(s) == [ty |-> "list", items |-> s]
JBool(b) == [ty |-> "bool", b |-> b]
JNum(n)  == [ty |-> "num", n |-> n]
JStr(s)  == [ty |-> "str", s |-> s]

\* Python truth value of a decoded JSON value (`if not auth_result`).
Truthy(v) ==
    CASE v.ty = "bool" -> v.b
      [] v.ty = "num"  -> v.n # 0
      [] v.ty = "str"  -> v.s # ""
      [] v.ty = "list" -> v.items # <<>>
      [] v.ty = "dict" -> DOMAIN v.fields # {}

\* msg[key] on a decoded value: a dict that has the key.
HasKey(v, k) == v.ty = "dict" /\ k \in DOMAIN v.fields

\* v[0]: the first element of a non-empty list (anything else raises here).
HasFirst(v) == v.ty = "list" /\ v.items # <<>>

(***************************************************************************)
(* The byte stream.  A read is a sequence of tokens: the delimiter         *)
(* "message:", a text that is the JSON serialisation of a value, a text    *)
(* that is not JSON, and a byte that code page 1251 does not define.       *)
(***************************************************************************)
Delim      == [t |-> "delim"]
Text(v)    == [t |-> "json", v |-> v]
Junk       == [t |-> "junk"]
BadByte    == [t |-> "byte98"]

\* data.decode(self.msg_encoding): fails on the whole read when a byte is undefined.
DecodeOk(data) == \A n \in 1..Len(data) : data[n].t # "byte98"

\* data.split(self._MSG_DELIMITER): the texts between the delimiters, the
\* empty ones included; always at least one fragment.
RECURSIVE SplitFrom(_, _, _)
SplitFrom(data, n, cur) ==
    IF n > Len(data) THEN <<cur>>
    ELSE IF data[n].t = "delim" THEN <<cur>> \o SplitFrom(data, n + 1, <<>>)
    ELSE SplitFrom(data, n + 1, Append(cur, data[n]))

Split(data) == SplitFrom(data, 1, <<>>)

\* json.loads(data_item): a fragment decodes when it is exactly one JSON text.
LoadsOk(item) == Len(item) = 1 /\ item[1].t = "json"
Loads(item)   == item[1].v

(***************************************************************************)
(* The instruments and feed callbacks the callers use, and the messages    *)
(* the peer sends.                                                         *)
(***************************************************************************)
Securities    == {<<"SPBFUT", "RIU8">>, <<"SPBFUT", "SiU8">>}
FeedCallbacks == {"cbA", "cbB"}
Callers       == {"t1", "t2"}
None          == "None"

\* msg_id of _create_datasource: '%s_%s_%s' % (_MSG_ID_CREATE_DATASOURCE, sec_name, sec_code)
DatasourceMsgId(sec_name, sec_code) ==
    MSG_ID_CREATE_DATASOURCE \o "_" \o sec_name \o "_" \o sec_code

AuthReply(ok) == JDict([id |-> MSG_ID_AUTH, result |-> JList(<<JBool(ok)>>)])
AuthNoResult  == JDict([id |-> MSG_ID_AUTH])
OnAllTradeTick(k, price, qty) ==
    JDict([id |-> "callback", callback_name |-> "OnAllTrade",
           result |-> JDict([class_code |-> k[1], sec_code |-> k[2],
                             price |-> price, qty |-> qty])])
OnAllTrade(k) == OnAllTradeTick(k, 100, 2)
OnTransReplyFull == JDict([id |-> "callback", callback_name |-> "OnTransReply",
                           result |-> JDict([result_msg |-> "order accepted"])])
OnTransReplyAck  == JDict([id |-> "callback", callback_name |-> "OnTransReply",
                           result |-> JBool(TRUE)])
OnQuote          == JDict([id |-> "callback", callback_name |-> "OnQuote",
                           result |-> JList(<<>>)])
NoCallbackName   == JDict([id |-> "callback"])
SetUpdReply      == JDict([id |-> "msg_set_upd_callback", result |-> JList(<<JBool(TRUE)>>)])
DatasourceReply(k) == JDict([id |-> DatasourceMsgId(k[1], k[2]),
                             result |-> JList(<<JStr("ds1")>>)])
DatasourcePlain  == JDict([id |-> MSG_ID_CREATE_DATASOURCE,
                           result |-> JList(<<JStr("ds1")>>)])
NoId             == JDict([result |-> JList(<<>>)])

Messages ==
    {AuthReply(TRUE), AuthReply(FALSE), AuthNoResult,
     OnAllTrade(<<"SPBFUT", "RIU8">>), OnAllTradeTick(<<"SPBFUT", "SiU8">>, 101, 5),
     OnTransReplyFull, OnTransReplyAck,
     OnQuote, NoCallbackName, SetUpdReply,
     DatasourceReply(<<"SPBFUT", "RIU8">>), DatasourcePlain, NoId}

\* What stands between two delimiters of a read: nothing, one JSON text,
\* a text that is not JSON, or an undefined byte.
Pieces == {<<>>, <<Junk>>, <<BadByte>>} \cup {<<Text(m)>> : m \in Messages}

\* The peer's framing: every fragment is prefixed by the delimiter.
RECURSIVE Frame(_)
Frame(frags) ==
    IF frags = <<>> THEN <<>>
    ELSE <<Delim>> \o Head(frags) \o Frame(Tail(frags))

ReadsOf(pieces) ==
    {Frame(f) : f \in UNION {[1..n -> pieces] : n \in 1..MaxBatch}}

Reads == ReadsOf(Pieces)

(***************************************************************************)
(* self._feed_callbacks: a Python dict, kept in insertion order.           *)
(***************************************************************************)
RegKeys(reg) == {reg[n][1] : n \in 1..Len(reg)}

\* dict.get(key): the value, or None.
RegGet(reg, k) ==
    IF k \in RegKeys(reg)
    THEN LET n == CHOOSE n \in 1..Len(reg) : reg[n][1] = k IN reg[n][2]
    ELSE None

\* dict[key] = value: overwrites in place, or appends a new entry.
RegStore(reg, k, cb) ==
    IF k \in RegKeys(reg)
    THEN [n \in 1..Len(reg) |-> IF reg[n][1] = k THEN <<k, cb>> ELSE reg[n]]
    ELSE Append(reg, <<k, cb>>)

(***************************************************************************)
(* Outgoing requests.                                                      *)
(***************************************************************************)
AuthMsg ==
    [prefix |-> "", id |-> MSG_ID_AUTH, method |-> "checkSecurity", args |-> <<passwd>>]

CreateDataSourceMsg(sec_name, sec_code) ==
    [prefix |-> MSG_DELIMITER, id |-> DatasourceMsgId(sec_name, sec_code),
     method |-> "CreateDataSource", args |-> <<sec_name, sec_code, "INTERVAL_TICK">>]

\* trans of _send_order, with the transaction id read at line 197.
Trans(tid, class_code, sec_code, quantity) ==
    "ACCOUNT=" \o account \o "\\nCLIENT_CODE=" \o account \o "\\nTYPE=L\\nTRANS_ID="
    \o ToString(tid) \o "\\nCLASSCODE=" \o class_code \o "\\nSECCODE=" \o sec_code
    \o "\\nACTION=NEW_ORDER\\nOPERATION=B\\nPRICE=0\\nQUANTITY=" \o ToString(quantity)

\* order_msg of _send_order, with the transaction id read at line 199.
OrderMsg(tid, trans) ==
    [prefix |-> MSG_DELIMITER, id |-> ToString(tid), method |-> "sendTransaction",
     args |-> <<trans>>]

\* trans_reply_msg of _send_order, with the ids read at lines 204 and 206.
TransReplyMsg(tid204, tid206) ==
    [prefix |-> MSG_DELIMITER, id |-> ToString(tid204) \o "_reply",
     method |-> "OnTransReply", args |-> <<ToString(tid206)>>]

(***************************************************************************)
(* The handlers of incoming messages.  Each gives its effect: the          *)
(* exception it raises ("none" when it returns), the status it leaves, the *)
(* feed callbacks it invokes and the records it logs.                      *)
(***************************************************************************)
Returns == [raises |-> "none", status |-> status, invoked |-> <<>>, logged |-> <<>>]
Raises(e) == [Returns EXCEPT !.raises = e]
Logs(level, text) == [level |-> level, text |-> text]

\* _on_auth without the test of line 93: any response authenticates.
on_auth_unchecked(msg) ==
    IF ~HasKey(msg, "result") THEN Raises("KeyError")
    ELSE IF ~HasFirst(msg.fields.result) THEN Raises("IndexError")
    ELSE [Returns EXCEPT !.status = CONNECTED, !.logged = <<Logs("info", "Connected")>>]

\* _on_auth
on_auth(msg) ==
    IF ~HasKey(msg, "result") THEN Raises("KeyError")
    ELSE IF ~HasFirst(msg.fields.result) THEN Raises("IndexError")
    ELSE IF ~Truthy(msg.fields.result.items[1]) THEN Raises("ConnectionError")
    ELSE [Returns EXCEPT !.status = CONNECTED, !.logged = <<Logs("info", "Connected")>>]

\* _on_create_datasource
on_create_datasource(msg) ==
    IF ~HasKey(msg, "result") THEN Raises("KeyError")
    ELSE IF ~HasFirst(msg.fields.result) THEN Raises("IndexError")
    ELSE [Returns EXCEPT !.logged = <<Logs("info", "Created datasource id")>>]

\* _on_trans_reply
on_trans_reply(msg) ==
    IF ~HasKey(msg, "result") THEN Raises("KeyError")
    ELSE IF msg.fields.result.ty = "dict"
         THEN IF HasKey(msg.fields.result, "result_msg")
              THEN [Returns EXCEPT !.logged = <<Logs("info", msg.fields.result.fields.result_msg)>>]
              ELSE Raises("KeyError")
         ELSE [Returns EXCEPT !.logged = <<Logs("info", "Result")>>]

\* _on_all_trade with every registered callback called at line 184, not
\* only the one of the event's instrument.
on_all_trade_broadcast(msg) ==
    IF msg.fields.callback_name # "OnAllTrade" THEN Returns
    ELSE IF ~HasKey(msg, "result") THEN Raises("KeyError")
    ELSE IF msg.fields.result.ty # "dict" THEN Raises("TypeError")
    ELSE IF ~({"class_code", "sec_code", "price", "qty"} \subseteq DOMAIN msg.fields.result.fields)
         THEN Raises("KeyError")
    ELSE LET result == msg.fields.result.fields IN
         [Returns EXCEPT
             !.invoked = [n \in 1..Len(feed_callbacks) |->
                             [callback |-> feed_callbacks[n][2],
                              args |-> <<result.class_code, result.sec_code,
                                         result.price, result.qty>>]]]

\* _on_all_trade without the test of line 182: None is called when the
\* instrument has no callback.
on_all_trade_unchecked(msg) ==
    IF msg.fields.callback_name # "OnAllTrade" THEN Returns
    ELSE IF ~HasKey(msg, "result") THEN Raises("KeyError")
    ELSE IF msg.fields.result.ty # "dict" THEN Raises("TypeError")
    ELSE IF ~({"class_code", "sec_code", "price", "qty"} \subseteq DOMAIN msg.fields.result.fields)
         THEN Raises("KeyError")
    ELSE LET result   == msg.fields.result.fields
             callback == RegGet(feed_callbacks, <<result.class_code, result.sec_code>>)
         IN  IF callback # None
             THEN [Returns EXCEPT
                      !.invoked = <<[callback |-> callback,
                                     args |-> <<result.class_code, result.sec_code,
                                                result.price, result.qty>>]>>]
             ELSE Raises("TypeError")

\* _on_all_trade
on_all_trade(msg) ==
    IF msg.fields.callback_name # "OnAllTrade" THEN Returns
    ELSE IF ~HasKey(msg, "result") THEN Raises("KeyError")
    ELSE IF msg.fields.result.ty # "dict" THEN Raises("TypeError")
    ELSE IF ~({"class_code", "sec_code", "price", "qty"} \subseteq DOMAIN msg.fields.result.fields)
         THEN Raises("KeyError")
    ELSE LET result     == msg.fields.result.fields
             class_code == result.class_code
             sec_name   == result.sec_code
             callback   == RegGet(feed_callbacks, <<class_code, sec_name>>)
         IN  IF callback # None
             THEN [Returns EXCEPT
                      !.logged = <<Logs("debug", "Feed callback found")>>,
                      !.invoked = <<[callback |-> callback,
                                     args |-> <<class_code, sec_name, result.price, result.qty>>]>>]
             ELSE Returns

\* _callback with switcher[msg['callback_name']] in place of switcher.get:
\* a callback_name that is not in the switcher raises.
callback_strict(msg) ==
    IF ~HasKey(msg, "callback_name") THEN Raises("KeyError")
    ELSE IF msg.fields.callback_name = "OnAllTrade" THEN on_all_trade(msg)
    ELSE IF msg.fields.callback_name = "OnTransReply" THEN on_trans_reply(msg)
    ELSE Raises("KeyError")

\* _callback: the switcher on callback_name
callback(msg) ==
    IF ~HasKey(msg, "callback_name") THEN Raises("KeyError")
    ELSE IF msg.fields.callback_name = "OnAllTrade" THEN on_all_trade(msg)
    ELSE IF msg.fields.callback_name = "OnTransReply" THEN on_trans_reply(msg)
    ELSE Returns

\* self._callbacks.get(id): the name of the handler, or None.
CallbacksGet(id) ==
    CASE id = MSG_ID_AUTH              -> "_on_auth"
      [] id = MSG_ID_CREATE_DATASOURCE -> "_on_create_datasource"
      [] id = "callback"               -> "_callback"
      [] OTHER                         -> None

\* callback(msg) of the receive loop
Handle(handler, msg) ==
    CASE handler = "_on_auth"              -> on_auth(msg)
      [] handler = "_on_create_datasource" -> on_create_datasource(msg)
      [] handler = "_callback"             -> callback(msg)

(***************************************************************************)
(* The state after __init__.                                               *)
(***************************************************************************)
NoMsg  == [prefix |-> "", id |-> "", method |-> "", args |-> <<>>]
NoArgs == [sec |-> <<"", "">>, quantity |-> 0, tmp |-> 0, trans |-> "", msg |-> NoMsg]

Init ==
    /\ status = DISCONNECTED
    /\ sock = "none"
    /\ last_trans_id = 0
    /\ feed_callbacks = <<>>
    /\ wire = <<>>
    /\ pc = "idle"
    /\ err = "none"
    /\ iter_pos = 0
    /\ iter_used = 0
    /\ data_items = <<>>
    /\ item_idx = 0
    /\ lookups = <<>>
    /\ invoked = <<>>
    /\ logged = <<>>
    /\ cpc = [t \in Callers |-> "idle"]
    /\ cargs = [t \in Callers |-> NoArgs]
    /\ peer = "up"

(***************************************************************************)
(* run(), step by step.  A step holds at most one access to the state the  *)
(* threads share (the connector's fields and the socket).                  *)
(***************************************************************************)

\* The run thread ends with exception e; its frame stays as it was.
Crash(e) ==
    /\ pc' = "crashed"
    /\ err' = e

\* run() is entered: _connect_sock, line 74.
run_enter ==
    /\ status' = CONNECTING
    /\ pc' = "socket"
    /\ err' = "none"
    /\ iter_pos' = 0
    /\ iter_used' = 0
    /\ data_items' = <<>>
    /\ item_idx' = 0
    /\ lookups' = <<>>
    /\ invoked' = <<>>
    /\ logged' = <<>>
    /\ UNCHANGED <<sock, last_trans_id, feed_callbacks, wire, callers>>
    /\ UNCHANGED peer

\* The first call of run().
run_call ==
    /\ pc = "idle"
    /\ run_enter

\* run() is called again after it has ended.
run_again ==
    /\ pc \in {"done", "crashed"}
    /\ run_enter

\* _connect_sock, line 76: a new socket object replaces self._sock.
connect_sock_socket ==
    /\ pc = "socket"
    /\ sock' = "created"
    /\ wire' = <<>>
    /\ pc' = "connect"
    /\ invoked' = <<>>
    /\ logged' = <<>>
    /\ UNCHANGED <<status, last_trans_id, feed_callbacks, err, iter_pos, iter_used,
                   data_items, item_idx, lookups, callers>>
    /\ peer' = "up"

\* _connect_sock, line 77: connect succeeds, or raises out of run().
connect_sock_connect ==
    /\ pc = "connect"
    /\ \/ /\ sock' = "open"
          /\ pc' = "auth"
          /\ UNCHANGED err
       \/ /\ Crash("OSError")
          /\ UNCHANGED sock
    /\ invoked' = <<>>
    /\ logged' = <<>>
    /\ UNCHANGED <<status, last_trans_id, feed_callbacks, wire, iter_pos, iter_used,
                   data_items, item_idx, lookups, callers>>
    /\ UNCHANGED peer

\* _auth, lines 84-86, and the dict iterator of line 121 being made.
auth ==
    /\ pc = "auth"
    /\ wire' = Append(wire, AuthMsg)
    /\ iter_pos' = 0
    /\ iter_used' = Len(feed_callbacks)
    /\ pc' = "replay"
    /\ invoked' = <<>>
    /\ logged' = <<>>
    /\ UNCHANGED <<status, sock, last_trans_id, feed_callbacks, err,
                   data_items, item_idx, lookups, callers>>
    /\ UNCHANGED peer

\* _create_subscribers_datasources: one turn of the for loop of line 121
\* (the iterator's next, which raises when the dict has changed size, and
\* _create_datasource for the entry it yields).
create_subscribers_datasources ==
    /\ pc = "replay"
    /\ IF Len(feed_callbacks) # iter_used
       THEN /\ Crash("RuntimeError")
            /\ UNCHANGED <<wire, iter_pos>>
       ELSE IF iter_pos < Len(feed_callbacks)
       THEN LET key == feed_callbacks[iter_pos + 1][1] IN
            /\ wire' = Append(wire, CreateDataSourceMsg(key[1], key[2]))
            /\ iter_pos' = iter_pos + 1
            /\ UNCHANGED <<pc, err>>
       ELSE /\ pc' = "recv"
            /\ UNCHANGED <<wire, iter_pos, err>>
    /\ invoked' = <<>>
    /\ logged' = <<>>
    /\ UNCHANGED <<status, sock, last_trans_id, feed_callbacks, iter_used,
                   data_items, item_idx, lookups, callers>>
    /\ UNCHANGED peer

\* Lines 225-230: recv returns data; it is decoded and split.
recv_from(readset) ==
    /\ pc = "recv"
    /\ peer = "up"
    /\ \E data \in readset :
          IF DecodeOk(data)
          THEN /\ data_items' = Split(data)
               /\ item_idx' = 1
               /\ pc' = "loop"
               /\ logged' = <<>>
          ELSE /\ logged' = <<Logs("exception", "Bad message packet")>>
               /\ UNCHANGED <<data_items, item_idx, pc>>
    /\ lookups' = <<>>
    /\ invoked' = <<>>
    /\ UNCHANGED <<conn, err, iter_pos, iter_used, callers>>
    /\ UNCHANGED peer

recv == recv_from(Reads)

\* Lines 225-230 with the loop left when recv returns no data (a break
\* after line 225).
recv_eof_break ==
    /\ pc = "recv"
    /\ peer = "closed"
    /\ pc' = "exit"
    /\ invoked' = <<>>
    /\ logged' = <<>>
    /\ UNCHANGED <<conn, err, iter_pos, iter_used, data_items, item_idx, lookups,
                   callers, peer>>

\* Lines 225-230 once the peer has closed: recv returns b'' at once, which
\* decodes to '' and splits into the one empty fragment.
recv_eof ==
    /\ pc = "recv"
    /\ peer = "closed"
    /\ data_items' = Split(<<>>)
    /\ item_idx' = 1
    /\ pc' = "loop"
    /\ lookups' = <<>>
    /\ invoked' = <<>>
    /\ logged' = <<>>
    /\ UNCHANGED <<conn, err, iter_pos, iter_used, callers, peer>>

\* The peer closes the connection.
peer_close ==
    /\ sock = "open"
    /\ peer = "up"
    /\ peer' = "closed"
    /\ invoked' = <<>>
    /\ logged' = <<>>
    /\ UNCHANGED <<conn, runloc, callers>>

\* Lines 233-243 without the except clause of line 242: a fragment that is
\* not JSON raises out of the loop.
ItemEffect_uncaught(item) ==
    IF item = <<>> THEN [eff |-> Returns, looked |-> <<>>]
    ELSE IF ~LoadsOk(item) THEN [eff |-> Raises("JSONDecodeError"), looked |-> <<>>]
    ELSE LET msg == Loads(item) IN
         IF msg.ty # "dict" THEN [eff |-> Raises("TypeError"), looked |-> <<>>]
         ELSE IF ~HasKey(msg, "id") THEN [eff |-> Raises("KeyError"), looked |-> <<>>]
         ELSE LET handler == CallbacksGet(msg.fields.id) IN
              [eff |-> IF handler = None THEN Returns ELSE Handle(handler, msg),
               looked |-> <<msg.fields.id>>]

\* The effect of lines 233-243 on one fragment; looked is the id looked up
\* in self._callbacks, if the fragment got that far.
ItemEffect(item) ==
    IF item = <<>> THEN [eff |-> Returns, looked |-> <<>>]
    ELSE IF ~LoadsOk(item)
    THEN [eff |-> [Returns EXCEPT !.logged = <<Logs("exception", "Bad message packet")>>],
          looked |-> <<>>]
    ELSE LET msg == Loads(item) IN
         IF msg.ty # "dict" THEN [eff |-> Raises("TypeError"), looked |-> <<>>]
         ELSE IF ~HasKey(msg, "id") THEN [eff |-> Raises("KeyError"), looked |-> <<>>]
         ELSE LET handler == CallbacksGet(msg.fields.id) IN
              [eff |-> IF handler = None THEN Returns ELSE Handle(handler, msg),
               looked |-> <<msg.fields.id>>]

\* The for loop of line 232 leaving after the first fragment it dispatched
\* (a break after line 241).
process_item_break ==
    /\ pc = "loop"
    /\ item_idx <= Len(data_items)
    /\ LET r == ItemEffect(data_items[item_idx]) IN
       /\ status' = r.eff.status
       /\ invoked' = r.eff.invoked
       /\ logged' = r.eff.logged
       /\ lookups' = lookups \o r.looked
       /\ IF r.eff.raises # "none"
          THEN /\ Crash(r.eff.raises)
               /\ UNCHANGED item_idx
          ELSE /\ item_idx' = IF r.looked = <<>> THEN item_idx + 1 ELSE Len(data_items) + 1
               /\ UNCHANGED <<pc, err>>
    /\ UNCHANGED <<sock, last_trans_id, feed_callbacks, wire, iter_pos, iter_used,
                   data_items, callers>>
    /\ UNCHANGED peer

\* Lines 232-243: one turn of the for loop over data_items.  An exception
\* of a handler leaves the loop and run(), whose frame stays as it was.
process_item ==
    /\ pc = "loop"
    /\ item_idx <= Len(data_items)
    /\ LET r == ItemEffect(data_items[item_idx]) IN
       /\ status' = r.eff.status
       /\ invoked' = r.eff.invoked
       /\ logged' = r.eff.logged
       /\ lookups' = lookups \o r.looked
       /\ IF r.eff.raises # "none"
          THEN /\ Crash(r.eff.raises)
               /\ UNCHANGED item_idx
          ELSE /\ item_idx' = item_idx + 1
               /\ UNCHANGED <<pc, err>>
    /\ UNCHANGED <<sock, last_trans_id, feed_callbacks, wire, iter_pos, iter_used,
                   data_items, callers>>
    /\ UNCHANGED peer

\* Line 232: data_items is exhausted; back to recv.
loop_end ==
    /\ pc = "loop"
    /\ item_idx > Len(data_items)
    /\ pc' = "recv"
    /\ data_items' = <<>>
    /\ item_idx' = 0
    /\ lookups' = <<>>
    /\ invoked' = <<>>
    /\ logged' = <<>>
    /\ UNCHANGED <<conn, err, iter_pos, iter_used, callers>>
    /\ UNCHANGED peer

\* KeyboardInterrupt without the except clause of line 246: it is raised
\* out of run() wherever it arrives.
interrupt_uncaught ==
    /\ pc \in {"socket", "connect", "auth", "replay", "recv", "loop", "exit", "close"}
    /\ Crash("KeyboardInterrupt")
    /\ logged' = <<>>
    /\ invoked' = <<>>
    /\ UNCHANGED <<conn, iter_pos, iter_used, data_items, item_idx, lookups, callers>>
    /\ UNCHANGED peer

\* KeyboardInterrupt in the thread of run(): caught inside the try of
\* lines 223-247, raised out of run() anywhere else.
interrupt ==
    /\ \/ /\ pc \in {"recv", "loop"}
          /\ pc' = "exit"
          /\ data_items' = <<>>
          /\ item_idx' = 0
          /\ lookups' = <<>>
          /\ logged' = <<Logs("info", "Interrupted by user")>>
          /\ UNCHANGED err
       \/ /\ pc \in {"socket", "connect", "auth", "replay", "exit", "close"}
          /\ Crash("KeyboardInterrupt")
          /\ logged' = <<>>
          /\ UNCHANGED <<data_items, item_idx, lookups>>
    /\ invoked' = <<>>
    /\ UNCHANGED <<conn, iter_pos, iter_used, callers>>
    /\ UNCHANGED peer

\* The shutdown path without the assignment of line 250.
exit_status_kept ==
    /\ pc = "exit"
    /\ pc' = "close"
    /\ invoked' = <<>>
    /\ logged' = <<>>
    /\ UNCHANGED <<status, sock, last_trans_id, feed_callbacks, wire, err, iter_pos, iter_used,
                   data_items, item_idx, lookups, callers>>
    /\ UNCHANGED peer

\* Line 250.
exit_status ==
    /\ pc = "exit"
    /\ status' = DISCONNECTED
    /\ pc' = "close"
    /\ invoked' = <<>>
    /\ logged' = <<>>
    /\ UNCHANGED <<sock, last_trans_id, feed_callbacks, wire, err, iter_pos, iter_used,
                   data_items, item_idx, lookups, callers>>
    /\ UNCHANGED peer

\* Lines 251-252.
exit_close ==
    /\ pc = "close"
    /\ sock' = "closed"
    /\ pc' = "done"
    /\ invoked' = <<>>
    /\ logged' = <<Logs("info", "Disconnected")>>
    /\ UNCHANGED <<status, last_trans_id, feed_callbacks, wire, err, iter_pos, iter_used,
                   data_items, item_idx, lookups, callers>>
    /\ UNCHANGED peer

(***************************************************************************)
(* subscribe() as a whole call, made by a thread other than the one        *)
(* inside run().                                                           *)
(***************************************************************************)

\* self._sock.sendall(msg): appends to the wire when the socket is open,
\* raises in the sender otherwise (AttributeError on None, OSError on a
\* socket that is not connected or is closed).
Sent(msgs) == IF sock = "open" THEN wire \o msgs ELSE wire

\* The callers stop sending when the wire holds MaxWire requests.
RoomFor(n) == Len(wire) + n <= MaxWire

\* subscribe without the test of line 112: the request is sent at once.
subscribe_unguarded(sec_name, sec_code, feed_callback) ==
    /\ RoomFor(1)
    /\ feed_callbacks' = RegStore(feed_callbacks, <<sec_name, sec_code>>, feed_callback)
    /\ wire' = Sent(<<CreateDataSourceMsg(sec_name, sec_code)>>)
    /\ invoked' = <<>>
    /\ logged' = <<>>
    /\ UNCHANGED <<status, sock, last_trans_id, runloc, callers>>
    /\ UNCHANGED peer

subscribe(sec_name, sec_code, feed_callback) ==
    /\ status = CONNECTED => RoomFor(1)
    /\ feed_callbacks' = RegStore(feed_callbacks, <<sec_name, sec_code>>, feed_callback)
    /\ IF status = CONNECTED
       THEN wire' = Sent(<<CreateDataSourceMsg(sec_name, sec_code)>>)
       ELSE UNCHANGED wire
    /\ invoked' = <<>>
    /\ logged' = <<>>
    /\ UNCHANGED <<status, sock, last_trans_id, runloc, callers>>
    /\ UNCHANGED peer

OrderSecurities == {<<"SPBFUT", "RIU8">>}

\* The reads of the handshake and of the data feed.
FeedPieces == {<<Text(AuthReply(TRUE))>>, <<Text(AuthReply(FALSE))>>,
               <<Text(OnAllTrade(<<"SPBFUT", "RIU8">>))>>}
FeedReads  == ReadsOf(FeedPieces)
recv_feed  == recv_from(FeedReads)

RunSteps ==
    \/ connect_sock_socket
    \/ connect_sock_connect
    \/ auth
    \/ create_subscribers_datasources
    \/ process_item
    \/ loop_end
    \/ interrupt
    \/ exit_status
    \/ exit_close

(***************************************************************************)
(* Spec: run() step by step (and called again after it has ended), the     *)
(* peer's handshake and feed, and the calls of subscribe() made meanwhile, *)
(* each as a whole.                                                        *)
(***************************************************************************)
Next ==
    \/ run_call
    \/ run_again
    \/ RunSteps
    \/ recv_feed
    \/ \E k \in Securities, cb \in FeedCallbacks : subscribe(k[1], k[2], cb)

Spec == Init /\ [][Next]_vars

(***************************************************************************)
(* SpecLoop: the receive loop over every read, with the instruments        *)
(* subscribed before run() is called.                                      *)
(***************************************************************************)
subscribe_before_run(sec_name, sec_code, feed_callback) ==
    /\ pc = "idle"
    /\ subscribe(sec_name, sec_code, feed_callback)

NextLoop ==
    \/ run_call
    \/ RunSteps
    \/ recv
    \/ \E k \in Securities, cb \in FeedCallbacks : subscribe_before_run(k[1], k[2], cb)

SpecLoop == Init /\ [][NextLoop]_vars

(***************************************************************************)
(* SpecEof: SpecLoop with a peer that closes the connection.               *)
(***************************************************************************)
NextEof ==
    \/ NextLoop
    \/ peer_close
    \/ recv_eof

SpecEof == Init /\ [][NextEof]_vars

(***************************************************************************)
(* SpecShutdown: SpecLoop with the thread of run() going on once it is on   *)
(* the shutdown path (lines 250-252 are straight-line code).               *)
(***************************************************************************)
SpecShutdown == SpecLoop /\ WF_vars(exit_status) /\ WF_vars(exit_close)

(***************************************************************************)
(* _send_order() step by step, executed by a caller thread t.  A step      *)
(* holds one access to a field of the connector or to the socket; the      *)
(* interpreter may switch threads between any two.                         *)
(***************************************************************************)
Goto(t, label)  == cpc' = [cpc EXCEPT ![t] = label]
Return(t)       == /\ cpc' = [cpc EXCEPT ![t] = "idle"]
                   /\ cargs' = [cargs EXCEPT ![t] = NoArgs]
NoOutput        == invoked' = <<>> /\ logged' = <<>>

\* _send_order, line 191: self._last_trans_id is loaded.
t_send_order(t, class_code, sec_code, quantity) ==
    /\ cpc[t] = "idle"
    /\ last_trans_id < MaxOrders
    /\ RoomFor(2)
    /\ cargs' = [cargs EXCEPT ![t].sec = <<class_code, sec_code>>,
                              ![t].quantity = quantity,
                              ![t].tmp = last_trans_id]
    /\ Goto(t, "so_store")
    /\ NoOutput
    /\ UNCHANGED <<conn, runloc>>
    /\ UNCHANGED peer

\* _send_order, line 191: the sum is stored.
t_send_order_store(t) ==
    /\ cpc[t] = "so_store"
    /\ last_trans_id' = cargs[t].tmp + 1
    /\ Goto(t, "so_trans")
    /\ NoOutput
    /\ UNCHANGED <<status, sock, feed_callbacks, wire, runloc, cargs>>
    /\ UNCHANGED peer

\* _send_order, lines 196-197: trans is formatted with the id read now.
t_send_order_trans(t) ==
    /\ cpc[t] = "so_trans"
    /\ cargs' = [cargs EXCEPT ![t].trans =
                    Trans(last_trans_id, cargs[t].sec[1], cargs[t].sec[2], cargs[t].quantity)]
    /\ Goto(t, "so_order")
    /\ NoOutput
    /\ UNCHANGED <<conn, runloc>>
    /\ UNCHANGED peer

\* _send_order, lines 198-199: order_msg is formatted with the id read now.
t_send_order_msg(t) ==
    /\ cpc[t] = "so_order"
    /\ cargs' = [cargs EXCEPT ![t].msg = OrderMsg(last_trans_id, cargs[t].trans)]
    /\ Goto(t, "so_send")
    /\ NoOutput
    /\ UNCHANGED <<conn, runloc>>
    /\ UNCHANGED peer

\* _send_order, line 202; an exception of sendall ends the call.
t_send_order_send(t) ==
    /\ cpc[t] = "so_send"
    /\ wire' = Sent(<<cargs[t].msg>>)
    /\ IF sock = "open"
       THEN Goto(t, "so_reply_id") /\ UNCHANGED cargs
       ELSE Return(t)
    /\ NoOutput
    /\ UNCHANGED <<status, sock, last_trans_id, feed_callbacks, runloc>>
    /\ UNCHANGED peer

\* _send_order, line 204: trans_reply_id is formatted with the id read now.
t_send_order_reply_id(t) ==
    /\ cpc[t] = "so_reply_id"
    /\ cargs' = [cargs EXCEPT ![t].tmp = last_trans_id]
    /\ Goto(t, "so_reply_msg")
    /\ NoOutput
    /\ UNCHANGED <<conn, runloc>>
    /\ UNCHANGED peer

\* _send_order, lines 205-206: trans_reply_msg is formatted with the id read now.
t_send_order_reply_msg(t) ==
    /\ cpc[t] = "so_reply_msg"
    /\ cargs' = [cargs EXCEPT ![t].msg = TransReplyMsg(cargs[t].tmp, last_trans_id)]
    /\ Goto(t, "so_reply_send")
    /\ NoOutput
    /\ UNCHANGED <<conn, runloc>>
    /\ UNCHANGED peer

\* _send_order, line 207.
t_send_order_reply_send(t) ==
    /\ cpc[t] = "so_reply_send"
    /\ wire' = Sent(<<cargs[t].msg>>)
    /\ Return(t)
    /\ NoOutput
    /\ UNCHANGED <<status, sock, last_trans_id, feed_callbacks, runloc>>
    /\ UNCHANGED peer

\* The reads of the handshake.
AuthPieces == {<<Text(AuthReply(TRUE))>>}
AuthReads  == {Frame(<<p>>) : p \in AuthPieces}
recv_auth  == recv_from(AuthReads)

(***************************************************************************)
(* SpecThreads: run() and the _send_order() calls of the caller threads,   *)
(* all step by step.                                                       *)
(***************************************************************************)
NextThreads ==
    \/ run_call
    \/ RunSteps
    \/ recv_auth
    \/ \E t \in Callers, k \in OrderSecurities : t_send_order(t, k[1], k[2], 1)
    \/ \E t \in Callers : t_send_order_store(t)
    \/ \E t \in Callers : t_send_order_trans(t)
    \/ \E t \in Callers : t_send_order_msg(t)
    \/ \E t \in Callers : t_send_order_send(t)
    \/ \E t \in Callers : t_send_order_reply_id(t)
    \/ \E t \in Callers : t_send_order_reply_msg(t)
    \/ \E t \in Callers : t_send_order_reply_send(t)

SpecThreads == Init /\ [][NextThreads]_vars

(***************************************************************************)
(* Properties.                                                             *)
(***************************************************************************)

\* The CreateDataSource requests on wire w for instrument k.
CdsCount(w, k) ==
    Cardinality({n \in 1..Len(w) : w[n] = CreateDataSourceMsg(k[1], k[2])})

\* A step puts request m on the wire as its last request.
Sends(m) == Len(wire') = Len(wire) + 1 /\ wire'[Len(wire')] = m

\* C1: a feed callback is invoked only while the status is Connected
\* (the state after a step that invoked one has status Connected).
C1_FeedOnlyWhileConnected ==
    invoked # <<>> => status = CONNECTED

\* C2: when the status becomes Connected, exactly one CreateDataSource
\* request has been sent for every key of the registry.
C2_OneRequestPerKeyAtConnected ==
    [][(status # CONNECTED /\ status' = CONNECTED)
          => \A k \in RegKeys(feed_callbacks) : CdsCount(wire', k) = 1]_vars

\* C3: a CreateDataSource request is put on the wire only while the status
\* is Connected.
C3_ReplayAfterConnected ==
    [][\A k \in Securities :
          Sends(CreateDataSourceMsg(k[1], k[2])) => status = CONNECTED]_vars

\* C4: a subscribe call records the (class, code) -> callback mapping and
\* leaves the status, the socket and the transaction counter unchanged; it
\* sends nothing while the status is not Connected, and exactly one
\* CreateDataSource request for its instrument while it is Connected.
C4_SubscribeFrame ==
    [][\A k \in Securities, cb \in FeedCallbacks :
          subscribe(k[1], k[2], cb) =>
             /\ feed_callbacks' = RegStore(feed_callbacks, k, cb)
             /\ RegGet(feed_callbacks', k) = cb
             /\ status' = status
             /\ sock' = sock
             /\ last_trans_id' = last_trans_id
             /\ IF status = CONNECTED
                THEN wire' = Append(wire, CreateDataSourceMsg(k[1], k[2]))
                ELSE wire' = wire]_vars

\* A subscribe call made while Connected has sent its request: the registry
\* was empty when run() replayed it, and a request is on the wire.
C4_Witness ==
    /\ status = CONNECTED
    /\ iter_used = 0
    /\ \E k \in Securities : CdsCount(wire, k) = 1

\* The sendTransaction requests on wire w, in the order they were sent.
IsOrder(m) == m.method = "sendTransaction"
Orders(w)  == SelectSeq(w, IsOrder)

\* C5: the sendTransaction requests on the wire carry the transaction ids
\* 1, 2, 3, ... in the order they were sent, as message id and as TRANS_ID.
C5_TransIdsInSequence ==
    \A n \in 1..Len(Orders(wire)) :
       \E k \in OrderSecurities :
          Orders(wire)[n] = OrderMsg(n, Trans(n, k[1], k[2], 1))

\* The receive loop is at an authentication response whose result is [false].
AtAuthFailure ==
    /\ pc = "loop"
    /\ item_idx <= Len(data_items)
    /\ data_items[item_idx] = <<Text(AuthReply(FALSE))>>

\* run() has ended on the authentication failure.
AuthFailed == pc = "crashed" /\ err = "ConnectionError"

\* C6: an authentication response with result [false] ends run() with
\* ConnectionError and leaves the status as it was; from then on the loop
\* processes no message and the status does not become Connected, until
\* run() is called again.
C6_AuthFailureIsTerminal ==
    [][/\ (AtAuthFailure /\ process_item) =>
             /\ pc' = "crashed"
             /\ err' = "ConnectionError"
             /\ status' = status
             /\ invoked' = <<>>
       /\ AuthFailed =>
             /\ pc' \in {"crashed", "socket"}
             /\ status' = CONNECTED => status = CONNECTED
             /\ pc' = "crashed" =>
                   /\ status' = status
                   /\ lookups' = lookups
                   /\ item_idx' = item_idx
                   /\ invoked' = <<>>]_vars

\* The authentication failed while the status was Connecting.
C6_Witness == AuthFailed /\ status = CONNECTING

\* C7: once run() has ended on an authentication failure the socket is
\* closed and the status is Disconnected.
C7_AuthFailureTearsDown ==
    AuthFailed => (sock = "closed" /\ status = DISCONNECTED)

\* A fragment that is a JSON object with an id.
IsMessage(item) == LoadsOk(item) /\ HasKey(Loads(item), "id")

\* A fragment that is not empty and is not well-formed JSON.
IsMalformed(item) == item # <<>> /\ ~LoadsOk(item)

\* A read whose fragments are messages (and the empty fragments the
\* delimiters leave).
WellFormedBatch(items) ==
    \A n \in 1..Len(items) : items[n] = <<>> \/ IsMessage(items[n])

\* The ids of the messages among items, in stream order.
RECURSIVE BatchIds(_)
BatchIds(items) ==
    IF items = <<>> THEN <<>>
    ELSE (IF IsMessage(Head(items)) THEN <<Loads(Head(items)).fields.id>> ELSE <<>>)
         \o BatchIds(Tail(items))

\* The loop has left the current read: it is exhausted, or a handler raised.
ReadLeft ==
    \/ pc = "loop" /\ item_idx > Len(data_items)
    \/ pc = "crashed" /\ data_items # <<>>

\* The fragments of the current read the loop has been at.
Processed == IF pc = "crashed" THEN item_idx ELSE item_idx - 1

\* C8 as stated: when the loop has left a read of N well-formed messages,
\* it has looked up exactly those N ids, in stream order.
C8_OneLookupPerMessage ==
    (ReadLeft /\ WellFormedBatch(data_items)) => lookups = BatchIds(data_items)

\* C8 as amended: in a read of well-formed messages the loop looks up the
\* messages it has been at, one lookup each, in stream order; a handler
\* that raises ends the loop, so the messages after it are not looked up,
\* and when no handler raises all N are.
C8_LookupsInStreamOrder ==
    (data_items # <<>> /\ WellFormedBatch(data_items)) =>
        /\ lookups = BatchIds(SubSeq(data_items, 1, Processed))
        /\ (pc = "loop" /\ item_idx > Len(data_items)) => lookups = BatchIds(data_items)

\* A read of two messages has been processed to its end.
C8_Witness ==
    /\ pc = "loop"
    /\ item_idx > Len(data_items)
    /\ WellFormedBatch(data_items)
    /\ Len(lookups) = 2

\* C9: a fragment that is not well-formed JSON never ends run(), and the
\* fragments the loop has been at after it have been looked up as if it
\* were not there.
C9_MalformedIsSkipped ==
    \A j \in 1..Len(data_items) :
       IsMalformed(data_items[j]) =>
          /\ pc = "crashed" => item_idx # j
          /\ j <= Processed => lookups = BatchIds(SubSeq(data_items, 1, Processed))

\* A message that follows a malformed fragment in its read has been looked up.
C9_Witness ==
    \E j \in 1..Len(data_items) :
       /\ IsMalformed(data_items[j])
       /\ j < Processed
       /\ IsMessage(data_items[Processed])
       /\ lookups # <<>>

\* The connector holds a socket that has not been closed.
Live == sock \in {"created", "open"}

\* run() was interrupted between two of its statements.
Interrupted == pc = "crashed" /\ err = "KeyboardInterrupt"

\* C10 as stated: in every state the socket handle exists exactly when the
\* status is Connecting or Connected.
C10_HandleIffConnectingOrConnected ==
    Live <=> status \in {CONNECTING, CONNECTED}

\* C10 as amended: the socket handle exists exactly when the status is
\* Connecting or Connected, except between the status assignment of
\* _connect_sock and its socket() call, and between the status assignment
\* of the shutdown path and its close(); Connected always has an open socket.
C10_HandleFollowsStatus ==
    /\ status = CONNECTED => sock = "open"
    /\ (status = CONNECTING /\ ~Live) => (pc = "socket" \/ Interrupted)
    /\ (status = DISCONNECTED /\ Live) => (pc = "close" \/ Interrupted)

\* run() has shut down and closed the socket it held.
C10_Witness ==
    /\ pc = "done"
    /\ sock = "closed"
    /\ status = DISCONNECTED

\* The receive loop is at a fragment that decodes to a JSON object.
AtMessage ==
    /\ pc = "loop"
    /\ item_idx <= Len(data_items)
    /\ LoadsOk(data_items[item_idx])
    /\ Loads(data_items[item_idx]).ty = "dict"

\* The message the receive loop is at.
CurMsg == Loads(data_items[item_idx])

\* The receive loop is at an OnAllTrade push event with a complete result.
AtAllTrade ==
    /\ AtMessage
    /\ HasKey(CurMsg, "id") /\ CurMsg.fields.id = "callback"
    /\ HasKey(CurMsg, "callback_name") /\ CurMsg.fields.callback_name = "OnAllTrade"
    /\ HasKey(CurMsg, "result") /\ CurMsg.fields.result.ty = "dict"
    /\ {"class_code", "sec_code", "price", "qty"} \subseteq DOMAIN CurMsg.fields.result.fields

\* The (class_code, sec_code) pair of the event the loop is at.
TradeKey == <<CurMsg.fields.result.fields.class_code, CurMsg.fields.result.fields.sec_code>>

\* The step goes on to the next fragment of the read; run() goes on.
NextFragment ==
    /\ pc' = "loop"
    /\ err' = err
    /\ item_idx' = item_idx + 1
    /\ data_items' = data_items

\* C11: an OnAllTrade event for a registered (class_code, sec_code) pair
\* makes exactly one callback invocation: the callback registered under
\* that pair, with the class, code, price and qty of the event.
C11_RegisteredTradeInvokesItsCallback ==
    [][(AtAllTrade /\ TradeKey \in RegKeys(feed_callbacks) /\ process_item) =>
          invoked' = <<[callback |-> RegGet(feed_callbacks, TradeKey),
                        args |-> <<TradeKey[1], TradeKey[2],
                                   CurMsg.fields.result.fields.price,
                                   CurMsg.fields.result.fields.qty>>]>>]_vars

\* Two instruments are registered with different callbacks, and an event
\* for the second has invoked its callback.
C11_Witness ==
    /\ Len(feed_callbacks) = 2
    /\ RegGet(feed_callbacks, <<"SPBFUT", "RIU8">>) = "cbA"
    /\ RegGet(feed_callbacks, <<"SPBFUT", "SiU8">>) = "cbB"
    /\ invoked = <<[callback |-> "cbB", args |-> <<"SPBFUT", "SiU8", 101, 5>>]>>

\* C12: an OnAllTrade event for a pair that is not registered invokes no
\* callback and raises nothing: the loop goes on to the next fragment.
C12_UnregisteredTradeIsDropped ==
    [][(AtAllTrade /\ TradeKey \notin RegKeys(feed_callbacks) /\ process_item) =>
          /\ invoked' = <<>>
          /\ NextFragment
          /\ UNCHANGED conn]_vars

\* With only the other instrument registered, an event for SPBFUT/SiU8 has
\* been passed and the loop is at the end of its read.
C12_Witness ==
    /\ pc = "loop"
    /\ item_idx = 3
    /\ data_items = << <<>>, <<Text(OnAllTradeTick(<<"SPBFUT", "SiU8">>, 101, 5))>> >>
    /\ RegKeys(feed_callbacks) = {<<"SPBFUT", "RIU8">>}
    /\ invoked = <<>>

\* The receive loop is at a message that has no route: its id is not a key
\* of self._callbacks, or it is a push event whose callback_name is not a
\* key of the switcher.
AtUnroutable ==
    /\ AtMessage
    /\ HasKey(CurMsg, "id")
    /\ \/ CallbacksGet(CurMsg.fields.id) = None
       \/ /\ CurMsg.fields.id = "callback"
          /\ HasKey(CurMsg, "callback_name")
          /\ CurMsg.fields.callback_name \notin {"OnAllTrade", "OnTransReply"}

\* C13: a message with an unknown id, or a push event with an unknown
\* callback_name, is dropped: no callback is invoked, nothing is logged or
\* sent, the status, the registry and the transaction counter stay as they
\* are, and the loop goes on to the next fragment.
C13_UnroutableIsDropped ==
    [][(AtUnroutable /\ process_item) =>
          /\ invoked' = <<>>
          /\ logged' = <<>>
          /\ UNCHANGED conn
          /\ NextFragment]_vars

\* A push event with callback_name OnQuote has been passed and the loop is
\* at the fragment after it.
C13_Witness ==
    /\ pc = "loop"
    /\ item_idx = 3
    /\ Len(data_items) = 3
    /\ data_items[2] = <<Text(OnQuote)>>
    /\ lookups = <<"callback">>

\* C14: the reply to a CreateDataSource request, which carries the
\* request's composite id, reaches _on_create_datasource, which logs the
\* datasource id.
C14_DatasourceReplyIsLogged ==
    [][\A k \in Securities :
          (AtMessage /\ CurMsg = DatasourceReply(k) /\ process_item) =>
             logged' = <<Logs("info", "Created datasource id")>>]_vars

\* run() is inside the try statement of lines 223-247.
InLoop == pc \in {"recv", "loop"}

\* C15: the receive loop is left only by an interrupt (or by an exception
\* that ends run()); an interrupt in the loop takes run() to the shutdown
\* path with the connector as it was; the status is set to Disconnected
\* only by line 250; and the shutdown path ends with the status
\* Disconnected and the socket closed, unless it is interrupted again.
C15_InterruptShutsDown ==
    /\ [][/\ (InLoop /\ interrupt) => (pc' = "exit" /\ UNCHANGED conn)
          /\ (InLoop /\ pc' \notin {"recv", "loop"}) => (interrupt \/ pc' = "crashed")
          /\ (status # DISCONNECTED /\ status' = DISCONNECTED) => exit_status
          /\ pc' = "exit" => (InLoop /\ interrupt)]_vars
    /\ (pc = "exit") ~> ((pc = "done" /\ status = DISCONNECTED /\ sock = "closed") \/ Interrupted)

\* run() was interrupted in its receive loop after requests had been sent,
\* and has logged 'Disconnected'.
C15_Witness ==
    /\ pc = "done"
    /\ wire # <<>>
    /\ logged = <<Logs("info", "Disconnected")>>

\* C16: of the errors met while the loop processes a read, only an
\* authentication failure ends run(); every other one leaves the loop running.
C16_OnlyAuthFailureEndsLoop ==
    [][(process_item /\ pc' = "crashed") => err' = "ConnectionError"]_vars

\* C17: run() is entered only while the status is Disconnected, and the
\* status changes only from Disconnected to Connecting, from Connecting to
\* Connected, or to Disconnected.
C17_StatusMovesForward ==
    [][/\ (pc' = "socket" /\ pc # "socket") => status = DISCONNECTED
       /\ status' # status =>
             \/ status = DISCONNECTED /\ status' = CONNECTING
             \/ status = CONNECTING /\ status' = CONNECTED
             \/ status' = DISCONNECTED]_vars

\* The OnTransReply request _send_order sends for transaction id tid.
ReplyFor(tid) == TransReplyMsg(tid, tid)

\* C18: on the wire every sendTransaction request is followed at once by
\* the OnTransReply request for its transaction id, and every OnTransReply
\* request follows the sendTransaction request of that id.
C18_OrderThenItsReply ==
    \A n \in 1..Len(wire) :
       /\ (IsOrder(wire[n]) /\ n < Len(wire)) =>
             \E tid \in 1..MaxOrders, k \in OrderSecurities :
                /\ wire[n] = OrderMsg(tid, Trans(tid, k[1], k[2], 1))
                /\ wire[n + 1] = ReplyFor(tid)
       /\ wire[n].method = "OnTransReply" =>
             /\ n > 1
             /\ \E tid \in 1..MaxOrders, k \in OrderSecurities :
                   /\ wire[n - 1] = OrderMsg(tid, Trans(tid, k[1], k[2], 1))
                   /\ wire[n] = ReplyFor(tid)

\* C19: the authentication request is the first request on the wire of a
\* connection, and every request after it starts with the delimiter.
C19_AuthFirstThenDelimited ==
    wire # <<>> =>
        /\ wire[1] = AuthMsg
        /\ \A n \in 2..Len(wire) : wire[n].prefix = MSG_DELIMITER

\* The peer has closed and the loop has consumed what it sent: run() is at
\* recv, or in the for loop over a read that returned no data.
Drained ==
    /\ peer = "closed"
    /\ \/ pc = "recv"
       \/ pc = "loop" /\ data_items = Split(<<>>)

\* C20: once the peer has closed and its data is consumed, every step of
\* run() other than an interrupt keeps it in the receive loop, with the
\* status, the socket and the registry as they were: run() does not end,
\* the status does not become Disconnected and the socket is not closed.
C20_PeerCloseKeepsLooping ==
    [][(Drained /\ ~interrupt) =>
          /\ Drained'
          /\ err' = "none"
          /\ UNCHANGED conn]_vars

\* The peer has closed while the status was Connected, and the loop has
\* been through a read that returned no data.
C20_Witness ==
    /\ peer = "closed"
    /\ status = CONNECTED
    /\ pc = "loop"
    /\ data_items = Split(<<>>)
    /\ item_idx = 2

====
